---- MODULE Spec2Model ----
(***************************************************************************)
(* Model of backend/research_chain.py: the LangGraph workflow that turns   *)
(* a topic into a report (filter -> intelligence -> strategy -> compose -> *)
(* review -> {compose | followup} -> END) and run_full_research, its       *)
(* public entry point; and of backend/main.py: the /research endpoint and  *)
(* its cache of reports.                                                   *)
(*                                                                         *)
(* Three specifications share the module.  Spec and LiveSpec follow one    *)
(* call of run_full_research through every answer the language model may   *)
(* give.  CallsSpec interleaves several calls of run_full_research.        *)
(* ServiceSpec interleaves several /research requests over the cache.      *)
(*                                                                         *)
(* A text is a sequence of symbols.  The texts the program inspects (the   *)
(* filter's answer, the review verdict, the follow-up text) are sequences  *)
(* of one-character symbols; a text the program only passes on (notes,     *)
(* insights, documents) is a sequence of one opaque symbol.                *)
(***************************************************************************)
EXTENDS Integers, Sequences, FiniteSets, TLC

VARIABLES
    pc,         \* the node the compiled graph runs next, or "END"
    status,     \* run_full_research: "running", "returned" or "raised"
    state,      \* the WorkflowState: a function from the keys present to values
    llm_out,    \* the text the language model returned to the last stage
    trace,      \* history: the nodes executed so far, in order
    searches,   \* history: number of web_lookup.run calls made
    classified, \* history: "none", or whether the filter's answer held YES
    passLog,    \* history: per review, whether the verdict held PASS
    error,      \* the exception run_full_research raised, or NoError
    result,     \* the values run_full_research returned (at most one)
    \* CallsSpec: several calls of run_full_research
    runs,       \* per call: its position, arguments, history and outcome
    checkpoints, \* per checkpointer and thread id: the thread's WorkflowState
    \* ServiceSpec: several /research requests
    requests,   \* per request: its position, payload, locals and response
    cache,      \* the rows of the knowledge_base table
    files       \* the report files archived, by name

pipelineVars ==
    <<pc, status, state, llm_out, trace, searches, classified, passLog, error, result>>
callsVars == <<runs, checkpoints>>
serviceVars == <<requests, cache, files>>

vars == <<pipelineVars, callsVars, serviceVars>>

----------------------------------------------------------------------------
(* Bounds of the model *)

\* most lines in the text of the language model to the follow-up prompt
MaxLines == 4
\* cap on the iteration counter (the code has none of its own)
MaxIteration == 5

----------------------------------------------------------------------------
(* Texts *)

\* all sequences over alphabet of length at most n
RECURSIVE SeqsUpTo(_, _)
SeqsUpTo(alphabet, n) ==
    IF n = 0 THEN {<<>>}
    ELSE LET shorter == SeqsUpTo(alphabet, n - 1)
         IN  shorter \cup {Append(s, c) : s \in {t \in shorter : Len(t) = n - 1}, c \in alphabet}

Whitespace == {" ", "\n", "\t"}

\* str.upper, one character
UpperChar(c) ==
    CASE c = "y" -> "Y"
      [] c = "e" -> "E"
      [] c = "s" -> "S"
      [] c = "n" -> "N"
      [] c = "o" -> "O"
      [] c = "p" -> "P"
      [] c = "a" -> "A"
      [] c = "f" -> "F"
      [] c = "i" -> "I"
      [] c = "l" -> "L"
      [] c = "q" -> "Q"
      [] OTHER -> c

\* str.upper
upper(s) == [i \in 1..Len(s) |-> UpperChar(s[i])]

\* str.lstrip / str.rstrip / str.strip
RECURSIVE lstrip(_)
lstrip(s) == IF s # <<>> /\ Head(s) \in Whitespace THEN lstrip(Tail(s)) ELSE s

RECURSIVE rstrip(_)
rstrip(s) ==
    IF s # <<>> /\ s[Len(s)] \in Whitespace THEN rstrip(SubSeq(s, 1, Len(s) - 1)) ELSE s

strip(s) == rstrip(lstrip(s))

\* sub in s
Contains(sub, s) ==
    \E i \in 0..(Len(s) - Len(sub)) : SubSeq(s, i + 1, i + Len(sub)) = sub

\* s.split("\n"): the pieces between line breaks, empty ones included
RECURSIVE splitFrom(_, _, _)
splitFrom(s, i, piece) ==
    IF i > Len(s) THEN <<piece>>
    ELSE IF s[i] = "\n" THEN <<piece>> \o splitFrom(s, i + 1, <<>>)
    ELSE splitFrom(s, i + 1, Append(piece, s[i]))

split(s) == splitFrom(s, 1, <<>>)

----------------------------------------------------------------------------
(* What the external collaborators may return *)

Topics == {<<"pizza recipes">>, <<"solar energy trends">>}

\* answers to the relevance prompt: YES, yes, " Yes\n", "YES.", NO, no,
\* "Y E S" and the empty answer
FilterAnswers ==
    {<<"Y", "E", "S">>, <<"y", "e", "s">>, <<" ", "Y", "e", "s", "\n">>,
     <<"Y", "E", "S", ".">>, <<"N", "O">>, <<"n", "o">>,
     <<"Y", " ", "E", " ", "S">>, <<>>}

\* answers to the review prompt: PASS, pass, "Pass.", FAIL, fail, PAS and
\* the empty answer
Verdicts ==
    {<<"P", "A", "S", "S">>, <<"p", "a", "s", "s">>, <<"P", "a", "s", "s", ".">>,
     <<"F", "A", "I", "L">>, <<"f", "a", "i", "l">>, <<"P", "A", "S">>, <<>>}

\* the lines of an answer to the follow-up prompt: an empty line, a blank
\* one, a question, a question with blanks around it
Lines == {<<>>, <<" ">>, <<"q">>, <<" ", "q", " ">>}

\* "\n".join(lines)
RECURSIVE JoinLines(_)
JoinLines(lines) ==
    IF lines = <<>> THEN <<>>
    ELSE IF Len(lines) = 1 THEN Head(lines)
    ELSE Head(lines) \o <<"\n">> \o JoinLines(Tail(lines))

\* answers to the follow-up prompt: every text of at most MaxLines lines
FollowupTexts == {JoinLines(lines) : lines \in SeqsUpTo(Lines, MaxLines)}

SearchResults == {<<"search data">>}
Notes == {<<"notes">>}
Insights == {<<"insights">>}
Documents == {<<"report A">>, <<"report B">>}

----------------------------------------------------------------------------
(* The WorkflowState and its patches *)

\* dict.get(key, default)
Get(s, key, default) == IF key \in DOMAIN s THEN s[key] ELSE default

\* the graph merges a node's patch into the state: a key of the patch
\* replaces the state's value
ApplyPatch(s, patch) ==
    [k \in DOMAIN s \cup DOMAIN patch |-> IF k \in DOMAIN patch THEN patch[k] ELSE s[k]]

EmptyPatch == [k \in {} |-> <<>>]

\* an exception: its class, and the stage and the cause it names (a bare
\* exception of a port names neither)
Exception(type, stage, cause) == [type |-> type, stage |-> stage, cause |-> cause]
NoError == Exception("none", "none", "none")
\* what web_lookup.run raises
SearchError == Exception("SearchError", "none", "none")
\* what a chain's invoke raises
GenerationError == Exception("GenerationError", "none", "none")

RejectionMessage == <<"This assistant specializes in energy-related topics only.">>
NoReport == <<"No report generated.">>

----------------------------------------------------------------------------
(* The six nodes: each returns a patch *)

\* mutant: an accepted topic marked as such in the state
relevance_filter_mark(s, answer) ==
    LET res == upper(strip(answer))
    IN  IF Contains(<<"Y", "E", "S">>, res)
        THEN [review_status |-> "OK"]
        ELSE [final_document |-> RejectionMessage,
              followups |-> <<>>,
              review_status |-> "STOP"]

relevance_filter(s, answer) ==
    LET res == upper(strip(answer))
    IN  IF Contains(<<"Y", "E", "S">>, res)
        THEN EmptyPatch
        ELSE [final_document |-> RejectionMessage,
              followups |-> <<>>,
              review_status |-> "STOP"]

intelligence_node(s, search_data, notes) ==
    [raw_search |-> search_data, summary_notes |-> notes, iteration |-> 0]

strategy_node(s, insights) ==
    [strategic_insights |-> insights]

\* mutant: the counter set to 1 instead of incremented
composer_node_reset(s, document) ==
    [final_document |-> document, iteration |-> 1]

composer_node(s, document) ==
    [final_document |-> document, iteration |-> Get(s, "iteration", 0) + 1]

\* "PASS" in verdict.upper()
SignalsPass(verdict) == Contains(<<"P", "A", "S", "S">>, upper(verdict))

\* mutant: the review without the cap on iteration
quality_check_node_nocap(s, verdict) ==
    IF SignalsPass(verdict)
    THEN [review_status |-> "APPROVED"]
    ELSE [review_status |-> "REVISE"]

\* mutant: the cap one revision later
quality_check_node_cap3(s, verdict) ==
    IF SignalsPass(verdict) \/ Get(s, "iteration", 0) >= 3
    THEN [review_status |-> "APPROVED"]
    ELSE [review_status |-> "REVISE"]

\* mutant: the verdict ignored, only the cap approves
quality_check_node_cap_only(s, verdict) ==
    IF Get(s, "iteration", 0) >= 2
    THEN [review_status |-> "APPROVED"]
    ELSE [review_status |-> "REVISE"]

quality_check_node(s, verdict) ==
    IF SignalsPass(verdict) \/ Get(s, "iteration", 0) >= 2
    THEN [review_status |-> "APPROVED"]
    ELSE [review_status |-> "REVISE"]

\* [q.strip() for q in raw.split("\n") if q.strip()]
RECURSIVE StrippedNonEmpty(_)
StrippedNonEmpty(pieces) ==
    IF pieces = <<>> THEN <<>>
    ELSE LET q == strip(Head(pieces))
         IN  IF q # <<>> THEN <<q>> \o StrippedNonEmpty(Tail(pieces))
             ELSE StrippedNonEmpty(Tail(pieces))

\* questions[:3]
FirstThree(questions) ==
    IF Len(questions) <= 3 THEN questions ELSE SubSeq(questions, 1, 3)

\* mutant: the lines stripped but the empty ones kept
followup_node_keep_blank(s, raw) ==
    [followups |-> FirstThree([i \in 1..Len(split(raw)) |-> strip(split(raw)[i])])]

followup_node(s, raw) ==
    [followups |-> FirstThree(StrippedNonEmpty(split(raw)))]

----------------------------------------------------------------------------
(* Flow control *)

\* mutant: a revision restarts the research instead of the composition
review_router_research(s) ==
    IF Get(s, "review_status", "") = "APPROVED" THEN "followup" ELSE "intelligence"

\* mutant: the review's status ignored
review_router_always_followup(s) == "followup"

review_router(s) ==
    IF Get(s, "review_status", "") = "APPROVED" THEN "followup" ELSE "compose"

\* mutant: the edge out of filter skips the intelligence stage
graph_edges_skip ==
    [filter |-> "strategy",
     intelligence |-> "strategy",
     strategy |-> "compose",
     compose |-> "review",
     followup |-> "END"]

\* graph.add_edge(...): the unconditional edges
graph_edges ==
    [filter |-> "intelligence",
     intelligence |-> "strategy",
     strategy |-> "compose",
     compose |-> "review",
     followup |-> "END"]

\* the node that follows node once its patch is merged into s
NextNode(node, s) ==
    IF node = "review" THEN review_router(s) ELSE graph_edges[node]

Nodes == {"filter", "intelligence", "strategy", "compose", "review", "followup"}

----------------------------------------------------------------------------
(* run_full_research *)

\* no call of CallsSpec is under way
NoCalls ==
    /\ runs = <<>>
    /\ checkpoints = <<>>

\* no request of ServiceSpec is under way
NoRequests ==
    /\ requests = <<>>
    /\ cache = <<>>
    /\ files = {}

\* workflow_app.invoke({"topic": topic}): a fresh state, entry point "filter"
Init ==
    /\ pc = "filter"
    /\ status = "running"
    /\ \E topic \in Topics : state = [topic |-> topic]
    /\ llm_out = <<>>
    /\ trace = <<>>
    /\ searches = 0
    /\ classified = "none"
    /\ passLog = <<>>
    /\ error = NoError
    /\ result = <<>>
    /\ NoCalls
    /\ NoRequests

\* a node ran to its end: its patch is merged and the edge out of it taken
Step(node, patch) ==
    /\ state' = ApplyPatch(state, patch)
    /\ pc' = NextNode(node, state')
    /\ trace' = Append(trace, node)
    /\ UNCHANGED <<status, error, result>>

\* mutant: the exception wrapped in one that names the stage
Raise_wrapped(node, exc) ==
    /\ status' = "raised"
    /\ error' = Exception("PipelineExecutionError", node, exc.type)
    /\ trace' = Append(trace, node)
    /\ UNCHANGED <<pc, state, result>>

\* an exception left a node: no node, and neither invoke nor
\* run_full_research, catches it, so it reaches the caller as it is
Raise(node, exc) ==
    /\ status' = "raised"
    /\ error' = exc
    /\ trace' = Append(trace, node)
    /\ UNCHANGED <<pc, state, result>>

Filter ==
    /\ status = "running" /\ pc = "filter"
    /\ \E answer \in FilterAnswers :
        /\ llm_out' = answer
        /\ classified' = IF relevance_filter(state, answer) = EmptyPatch THEN "in" ELSE "out"
        /\ Step("filter", relevance_filter(state, answer))
    /\ UNCHANGED <<searches, passLog>>
    /\ UNCHANGED <<callsVars, serviceVars>>

Intelligence ==
    /\ status = "running" /\ pc = "intelligence"
    /\ searches' = searches + 1
    /\ \E search_data \in SearchResults, notes \in Notes :
        /\ llm_out' = notes
        /\ Step("intelligence", intelligence_node(state, search_data, notes))
    /\ UNCHANGED <<classified, passLog>>
    /\ UNCHANGED <<callsVars, serviceVars>>

Strategy ==
    /\ status = "running" /\ pc = "strategy"
    /\ \E insights \in Insights :
        /\ llm_out' = insights
        /\ Step("strategy", strategy_node(state, insights))
    /\ UNCHANGED <<searches, classified, passLog>>
    /\ UNCHANGED <<callsVars, serviceVars>>

Compose ==
    /\ status = "running" /\ pc = "compose"
    /\ Get(state, "iteration", 0) < MaxIteration
    /\ \E document \in Documents :
        /\ llm_out' = document
        /\ Step("compose", composer_node(state, document))
    /\ UNCHANGED <<searches, classified, passLog>>
    /\ UNCHANGED <<callsVars, serviceVars>>

Review ==
    /\ status = "running" /\ pc = "review"
    /\ \E verdict \in Verdicts :
        /\ llm_out' = verdict
        /\ passLog' = Append(passLog, SignalsPass(verdict))
        /\ Step("review", quality_check_node(state, verdict))
    /\ UNCHANGED <<searches, classified>>
    /\ UNCHANGED <<callsVars, serviceVars>>

Followup ==
    /\ status = "running" /\ pc = "followup"
    /\ \E raw \in FollowupTexts :
        /\ llm_out' = raw
        /\ Step("followup", followup_node(state, raw))
    /\ UNCHANGED <<searches, classified, passLog>>
    /\ UNCHANGED <<callsVars, serviceVars>>

\* web_lookup.run raises
SearchFails ==
    /\ status = "running" /\ pc = "intelligence"
    /\ searches' = searches + 1
    /\ Raise("intelligence", SearchError)
    /\ UNCHANGED <<llm_out, classified, passLog>>
    /\ UNCHANGED <<callsVars, serviceVars>>

\* a chain's invoke raises
GenerationFails ==
    /\ status = "running" /\ pc \in Nodes
    /\ searches' = IF pc = "intelligence" THEN searches + 1 ELSE searches
    /\ Raise(pc, GenerationError)
    /\ UNCHANGED <<llm_out, classified, passLog>>
    /\ UNCHANGED <<callsVars, serviceVars>>

\* invoke returned the final state; run_full_research builds its result
Return ==
    /\ status = "running" /\ pc = "END"
    /\ status' = "returned"
    /\ result' = <<[report |-> Get(state, "final_document", NoReport),
                    suggestions |-> Get(state, "followups", <<>>)]>>
    /\ llm_out' = <<>>
    /\ UNCHANGED <<pc, state, trace, searches, classified, passLog, error>>
    /\ UNCHANGED <<callsVars, serviceVars>>

Next ==
    \/ Filter
    \/ Intelligence
    \/ Strategy
    \/ Compose
    \/ Review
    \/ Followup
    \/ SearchFails
    \/ GenerationFails
    \/ Return

Spec == Init /\ [][Next]_vars

\* The executions in which every external call returns: no call raises, and
\* the engine, which runs the stages one after the other, always takes the
\* next step.
NextReturns ==
    \/ Filter
    \/ Intelligence
    \/ Strategy
    \/ Compose
    \/ Review
    \/ Followup
    \/ Return

LiveSpec == Init /\ [][NextReturns]_vars /\ WF_vars(NextReturns)

----------------------------------------------------------------------------
(* Several calls of run_full_research, interleaved stage by stage *)

\* the calls, numbered
Calls == {1, 2}

\* the thread_id argument: None, or a session's identifier
ThreadArgs == {"None", "session A"}

\* thread_id or "energy_session"
ConfigThread(thread_id) ==
    IF thread_id = "None" THEN "energy_session" ELSE thread_id

\* mutant: one checkpointer made at import time serves every call
MemorySaver_shared(call) == 0

\* memory = MemorySaver(): each call makes a checkpointer of its own
MemorySaver(call) == call

\* where a call's WorkflowState lives: in its checkpointer, under its thread
ThreadKey(call, thread) == <<MemorySaver(call), thread>>

\* the answers the calls are given: a selection of those of Spec (the
\* topic accepted; a document out of two; PASS or FAIL; one follow-up text)
SomeAnswers(node) ==
    CASE node = "filter" -> {<<"Y", "E", "S">>}
      [] node = "intelligence" -> SearchResults \X Notes
      [] node = "strategy" -> Insights
      [] node = "compose" -> Documents
      [] node = "review" -> {<<"P", "A", "S", "S">>, <<"F", "A", "I", "L">>}
      [] node = "followup" -> {<<"q", "\n", " ", "q", " ">>}

\* the patch node returns on state s when its external calls answer
NodePatch(node, s, answer) ==
    CASE node = "filter" -> relevance_filter(s, answer)
      [] node = "intelligence" -> intelligence_node(s, answer[1], answer[2])
      [] node = "strategy" -> strategy_node(s, answer)
      [] node = "compose" -> composer_node(s, answer)
      [] node = "review" -> quality_check_node(s, answer)
      [] node = "followup" -> followup_node(s, answer)

\* the dict run_full_research returns for the final state s
ResultOf(s) ==
    [report |-> Get(s, "final_document", NoReport),
     suggestions |-> Get(s, "followups", <<>>)]

IdleRun ==
    [pc |-> "idle", status |-> "idle", topic |-> <<>>, thread |-> "",
     trace |-> <<>>, answers |-> <<>>, first |-> EmptyPatch, result |-> <<>>]

CallsInit ==
    /\ runs = [call \in Calls |-> IdleRun]
    /\ checkpoints = <<>>
    /\ pc = "idle"
    /\ status = "idle"
    /\ state = EmptyPatch
    /\ llm_out = <<>>
    /\ trace = <<>>
    /\ searches = 0
    /\ classified = "none"
    /\ passLog = <<>>
    /\ error = NoError
    /\ result = <<>>
    /\ NoRequests

\* run_full_research(topic, thread_id) up to the start of the graph: invoke
\* merges its input into what the checkpointer holds for the thread
Call(call) ==
    /\ runs[call].pc = "idle"
    /\ \A earlier \in Calls : earlier < call => runs[earlier].pc # "idle"
    /\ \E topic \in Topics, thread_id \in ThreadArgs :
        LET key == ThreadKey(call, ConfigThread(thread_id))
            held == IF key \in DOMAIN checkpoints THEN checkpoints[key] ELSE EmptyPatch
            seeded == ApplyPatch(held, [topic |-> topic])
        IN  /\ checkpoints' =
                [k \in DOMAIN checkpoints \cup {key} |->
                    IF k = key THEN seeded ELSE checkpoints[k]]
            /\ runs' = [runs EXCEPT ![call] =
                [pc |-> "filter", status |-> "running", topic |-> topic,
                 thread |-> ConfigThread(thread_id), trace |-> <<>>,
                 answers |-> <<>>, first |-> seeded, result |-> <<>>]]
    /\ UNCHANGED <<pipelineVars, serviceVars>>

\* one node of a call runs to its end
RunNode(call) ==
    /\ runs[call].status = "running"
    /\ runs[call].pc \in Nodes
    /\ LET node == runs[call].pc
           key == ThreadKey(call, runs[call].thread)
       IN  /\ node = "compose" => Get(checkpoints[key], "iteration", 0) < MaxIteration
           /\ \E answer \in SomeAnswers(node) :
               LET merged == ApplyPatch(checkpoints[key],
                                        NodePatch(node, checkpoints[key], answer))
               IN  /\ checkpoints' = [checkpoints EXCEPT ![key] = merged]
                   /\ runs' = [runs EXCEPT ![call].pc = NextNode(node, merged),
                                           ![call].trace = Append(@, node),
                                           ![call].answers = Append(@, answer)]
    /\ UNCHANGED <<pipelineVars, serviceVars>>

\* invoke returned the final state; the call builds its result
RunReturn(call) ==
    /\ runs[call].status = "running"
    /\ runs[call].pc = "END"
    /\ runs' = [runs EXCEPT
                  ![call].status = "returned",
                  ![call].result =
                      <<ResultOf(checkpoints[ThreadKey(call, runs[call].thread)])>>]
    /\ UNCHANGED <<checkpoints, pipelineVars, serviceVars>>

CallsNext ==
    \E call \in Calls :
        \/ Call(call)
        \/ RunNode(call)
        \/ RunReturn(call)

CallsSpec == CallsInit /\ [][CallsNext]_vars

----------------------------------------------------------------------------
(* The /research endpoint and its cache: several requests, interleaved at  *)
(* the database statements                                                 *)

\* the requests, numbered in the order they arrive
Requests == {1, 2, 3}

\* the topics asked for: "Sun", " sun!" and "wind"
Queries ==
    {<<"S", "u", "n">>, <<" ", "s", "u", "n", "!">>, <<"w", "i", "n", "d">>}

\* str.lower, one character
LowerChar(c) ==
    CASE c = "S" -> "s"
      [] c = "U" -> "u"
      [] c = "N" -> "n"
      [] c = "W" -> "w"
      [] c = "I" -> "i"
      [] c = "D" -> "d"
      [] OTHER -> c

lower(text) == [i \in 1..Len(text) |-> LowerChar(text[i])]

\* the characters slugify keeps
SlugChars ==
    {"a", "b", "c", "d", "e", "f", "g", "h", "i", "j", "k", "l", "m", "n", "o",
     "p", "q", "r", "s", "t", "u", "v", "w", "x", "y", "z",
     "0", "1", "2", "3", "4", "5", "6", "7", "8", "9"}

\* every run of other characters becomes one hyphen
RECURSIVE hyphenate(_, _)
hyphenate(text, afterHyphen) ==
    IF text = <<>> THEN <<>>
    ELSE IF Head(text) \in SlugChars THEN <<Head(text)>> \o hyphenate(Tail(text), FALSE)
    ELSE IF afterHyphen THEN hyphenate(Tail(text), TRUE)
    ELSE <<"-">> \o hyphenate(Tail(text), TRUE)

RECURSIVE stripHyphens(_)
stripHyphens(text) ==
    IF text # <<>> /\ Head(text) = "-" THEN stripHyphens(Tail(text))
    ELSE IF text # <<>> /\ text[Len(text)] = "-"
         THEN stripHyphens(SubSeq(text, 1, Len(text) - 1))
    ELSE text

\* slugify(text): lower case, hyphens for what is neither letter nor digit
slugify(text) == stripHyphens(hyphenate(lower(text), FALSE))

normalize_topic(topic) == slugify(strip(topic))

\* db.query(KnowledgeBase).filter(KnowledgeBase.slug == slug).first(): the
\* first row of that slug, as a sequence of at most one row
FirstBySlug(rows, slug) ==
    LET hits == {i \in 1..Len(rows) : rows[i].slug = slug}
    IN  IF hits = {} THEN <<>>
        ELSE <<rows[CHOOSE i \in hits : \A j \in hits : i <= j]>>

\* mutant: the cache looked up by the query as typed
fetch_from_cache_by_query(topic, rows) ==
    LET hits == {i \in 1..Len(rows) : rows[i].query = topic}
    IN  IF hits = {} THEN <<>>
        ELSE <<rows[CHOOSE i \in hits : \A j \in hits : i <= j]>>

fetch_from_cache(topic, rows) == FirstBySlug(rows, normalize_topic(topic))

\* mutant: the slug column without its unique index
knowledge_base_insert_any(rows, row) ==
    [committed |-> TRUE, rows |-> Append(rows, row)]

\* db.add(record); db.commit() on a table whose slug column is unique: the
\* row is added, or the commit raises and the table stays as it is
knowledge_base_insert(rows, row) ==
    IF \E i \in 1..Len(rows) : rows[i].slug = row.slug
    THEN [committed |-> FALSE, rows |-> rows]
    ELSE [committed |-> TRUE, rows |-> Append(rows, row)]

\* what run_full_research may return to the endpoint: a composed document
\* and the follow-ups
PipelineResults ==
    {[report |-> document, suggestions |-> <<<<"q">>>>] : document \in Documents}

\* the name of a topic's report file
ReportFile(topic) == normalize_topic(topic) \o <<".txt">>

NoResponse == [status |-> 0, result |-> <<>>, file_path |-> <<>>, suggestions |-> <<>>]

\* HTTPException(status_code=500, ...)
ServerError == [status |-> 500, result |-> <<>>, file_path |-> <<>>, suggestions |-> <<>>]

\* ResearchResponse(...)
ResearchResponse(result_, file_path, suggestions) ==
    [status |-> 200, result |-> result_, file_path |-> file_path,
     suggestions |-> suggestions]

\* a request not yet made.  ran, failed and after are history: whether the
\* request called run_full_research, what made it fail, and which requests
\* had been answered when it arrived
IdleRequest ==
    [pc |-> "idle", query |-> <<>>, report |-> <<>>, followups |-> <<>>,
     response |-> NoResponse, ran |-> FALSE, failed |-> "no", after |-> {}]

ServiceInit ==
    /\ requests = [r \in Requests |-> IdleRequest]
    /\ cache = <<>>
    /\ files = {}
    /\ pc = "idle"
    /\ status = "idle"
    /\ state = EmptyPatch
    /\ llm_out = <<>>
    /\ trace = <<>>
    /\ searches = 0
    /\ classified = "none"
    /\ passLog = <<>>
    /\ error = NoError
    /\ result = <<>>
    /\ NoCalls

\* POST /research arrives with a valid payload
Post(r) ==
    /\ requests[r].pc = "idle"
    /\ \A earlier \in Requests : earlier < r => requests[earlier].pc # "idle"
    /\ \E query \in Queries :
        requests' = [requests EXCEPT
            ![r].pc = "fetch",
            ![r].query = query,
            ![r].after = {q \in Requests : requests[q].pc = "done"}]
    /\ UNCHANGED <<cache, files, pipelineVars, callsVars>>

\* 1. check cache: a hit is answered at once
Fetch(r) ==
    /\ requests[r].pc = "fetch"
    /\ LET cached_entry == fetch_from_cache(requests[r].query, cache)
       IN  requests' =
             IF cached_entry # <<>>
             THEN [requests EXCEPT
                     ![r].pc = "done",
                     ![r].response =
                         ResearchResponse(cached_entry[1].content,
                                          <<"database-cache">>, <<>>)]
             ELSE [requests EXCEPT ![r].pc = "run"]
    /\ UNCHANGED <<cache, files, pipelineVars, callsVars>>

\* 2. run_full_research returns
Research(r) ==
    /\ requests[r].pc = "run"
    /\ \E engine_output \in PipelineResults :
        requests' = [requests EXCEPT
            ![r].pc = "store",
            ![r].ran = TRUE,
            ![r].report = engine_output.report,
            ![r].followups = engine_output.suggestions]
    /\ UNCHANGED <<cache, files, pipelineVars, callsVars>>

\* mutant: the failure answered with an error report, stored like any other
ResearchFails_stored(r) ==
    /\ requests[r].pc = "run"
    /\ requests' = [requests EXCEPT
          ![r].pc = "done",
          ![r].ran = TRUE,
          ![r].failed = "pipeline",
          ![r].response = ServerError]
    /\ cache' = knowledge_base_insert(cache,
                    [query |-> requests[r].query,
                     slug |-> normalize_topic(requests[r].query),
                     content |-> <<"Research processing failed">>]).rows
    /\ UNCHANGED <<files, pipelineVars, callsVars>>

\* 2. run_full_research raises: except Exception answers with a 500
ResearchFails(r) ==
    /\ requests[r].pc = "run"
    /\ requests' = [requests EXCEPT
          ![r].pc = "done",
          ![r].ran = TRUE,
          ![r].failed = "pipeline",
          ![r].response = ServerError]
    /\ UNCHANGED <<cache, files, pipelineVars, callsVars>>

\* 3. store_in_cache, its query: nothing is stored over an existing entry
StoreCheck(r) ==
    /\ requests[r].pc = "store"
    /\ requests' = [requests EXCEPT ![r].pc =
          IF FirstBySlug(cache, normalize_topic(requests[r].query)) = <<>>
          THEN "insert" ELSE "archive"]
    /\ UNCHANGED <<cache, files, pipelineVars, callsVars>>

\* 3. store_in_cache, its insert; a failed commit is answered with a 500
Insert(r) ==
    /\ requests[r].pc = "insert"
    /\ LET done == knowledge_base_insert(cache,
                       [query |-> requests[r].query,
                        slug |-> normalize_topic(requests[r].query),
                        content |-> requests[r].report])
       IN  /\ cache' = done.rows
           /\ requests' =
                IF done.committed
                THEN [requests EXCEPT ![r].pc = "archive"]
                ELSE [requests EXCEPT ![r].pc = "done",
                                      ![r].failed = "commit",
                                      ![r].response = ServerError]
    /\ UNCHANGED <<files, pipelineVars, callsVars>>

\* 3./4. archive_report writes the file, or fails and yields None; then the
\* response is returned
Archive(r) ==
    /\ requests[r].pc = "archive"
    /\ \/ /\ files' = {f \in files : f.name # ReportFile(requests[r].query)}
                        \cup {[name |-> ReportFile(requests[r].query),
                               topic |-> requests[r].query,
                               report |-> requests[r].report]}
          /\ requests' = [requests EXCEPT
                ![r].pc = "done",
                ![r].response = ResearchResponse(requests[r].report,
                                                 ReportFile(requests[r].query),
                                                 requests[r].followups)]
       \/ /\ files' = files
          /\ requests' = [requests EXCEPT
                ![r].pc = "done",
                ![r].response = ResearchResponse(requests[r].report, <<>>,
                                                 requests[r].followups)]
    /\ UNCHANGED <<cache, pipelineVars, callsVars>>

ServiceNext ==
    \E r \in Requests :
        \/ Post(r)
        \/ Fetch(r)
        \/ Research(r)
        \/ ResearchFails(r)
        \/ StoreCheck(r)
        \/ Insert(r)
        \/ Archive(r)

ServiceSpec == ServiceInit /\ [][ServiceNext]_vars

----------------------------------------------------------------------------
(* Properties *)

\* how often node was executed so far
Runs(node) == Cardinality({i \in 1..Len(trace) : trace[i] = node})

Last(seq) == seq[Len(seq)]

\* the graph reached END (the state is the terminal one)
Ended == pc = "END"

\* every review verdict so far signalled FAIL
AllFail == \A i \in 1..Len(passLog) : ~passLog[i]

\* the execution of Scenario C, stage by stage
TwoComposeTrace ==
    <<"filter", "intelligence", "strategy", "compose", "review",
      "compose", "review", "followup">>

\* C1 (as claimed): once the filter has set review_status to STOP, no other
\* stage is executed and the state stays the filter's patch over the topic.
C1_EarlyExit ==
    classified = "out" =>
        /\ trace = <<"filter">>
        /\ state = ApplyPatch([topic |-> state["topic"]],
                              [final_document |-> RejectionMessage,
                               followups |-> <<>>,
                               review_status |-> "STOP"])

\* C2 (as claimed): for a topic classified as not in domain no search call
\* is made, and run_full_research returns the rejection message with no
\* suggestions.
C2_Rejection ==
    classified = "out" =>
        /\ searches = 0
        /\ status = "returned" =>
             result = <<[report |-> RejectionMessage, suggestions |-> <<>>]>>

\* C3: when every external call returns, the execution eventually returns,
\* the followup stage being the last one executed, whatever the verdicts.
C3_Termination ==
    <>(status = "returned" /\ trace # <<>> /\ Last(trace) = "followup")

\* C3 witness: every verdict was FAIL and the execution still returned
C3_Witness ==
    /\ status = "returned"
    /\ passLog = <<FALSE, FALSE>>
    /\ Last(trace) = "followup"

\* C4: when the filter passes, the composer never runs more than 3 times,
\* and at the end it has run at least once and iteration is in {1, 2, 3}.
C4_IterationRange ==
    classified = "in" =>
        /\ Runs("compose") <= 3
        /\ Ended => /\ Runs("compose") >= 1
                    /\ state["iteration"] \in {1, 2, 3}

\* C4 witness: an in-domain execution ended after a revision
C4_Witness ==
    /\ Ended
    /\ classified = "in"
    /\ Runs("compose") = 2
    /\ state["iteration"] = 2

\* C5 (as claimed): when the filter passes and every verdict is FAIL, the
\* composer has run exactly 3 times when the execution ends.
C5_ThreeComposes ==
    (Ended /\ classified = "in" /\ AllFail) =>
        /\ Runs("compose") = 3
        /\ Runs("followup") = 1

\* C5 (amended): when the filter passes and every verdict is FAIL, the
\* composer runs exactly 2 times: the second review approves because
\* iteration is 2. Then followup runs once and the execution ends.
C5_TwoComposes ==
    (Ended /\ classified = "in" /\ AllFail) =>
        /\ Runs("compose") = 2
        /\ Runs("followup") = 1
        /\ state["iteration"] = 2
        /\ state["review_status"] = "APPROVED"
        /\ trace = TwoComposeTrace

\* C5 witness: the filter passed, two reviews said FAIL, the execution ended
C5_Witness ==
    /\ Ended
    /\ classified = "in"
    /\ passLog = <<FALSE, FALSE>>

\* C6: when the filter passes and the first verdict is PASS, the composer
\* runs exactly once, iteration is 1, the review is followed by followup,
\* and followup has run exactly once when the execution ends.
C6_FirstPass ==
    (classified = "in" /\ passLog # <<>> /\ passLog[1]) =>
        /\ Runs("compose") = 1
        /\ state["iteration"] = 1
        /\ Len(passLog) = 1
        /\ pc \in {"followup", "END"}
        /\ Ended => Runs("followup") = 1

\* C6 witness: an in-domain execution ended after a first verdict of PASS
C6_Witness ==
    /\ Ended
    /\ classified = "in"
    /\ passLog = <<TRUE>>
    /\ Runs("followup") = 1

\* the search call of this execution raised
SearchFailed == error.type = "SearchError" \/ error.cause = "SearchError"

\* C7 (as claimed): when the search call fails, run_full_research raises a
\* PipelineExecutionError that names the intelligence stage, no composer or
\* followup call occurs and no result is returned.
C7_PipelineExecutionError ==
    SearchFailed =>
        /\ status = "raised"
        /\ error.type = "PipelineExecutionError"
        /\ error.stage = "intelligence"
        /\ Runs("compose") = 0
        /\ Runs("followup") = 0
        /\ result = <<>>

\* C7 (amended): when the search call fails, run_full_research raises the
\* search call's own exception, unwrapped; the intelligence stage is the
\* last one executed, no composer or followup call occurs and no result is
\* returned.
C7_SearchFailure ==
    SearchFailed =>
        /\ status = "raised"
        /\ error = SearchError
        /\ Last(trace) = "intelligence"
        /\ Runs("compose") = 0
        /\ Runs("followup") = 0
        /\ result = <<>>

\* C7 witness: the search call raised in the intelligence stage
C7_Witness ==
    /\ status = "raised"
    /\ error = SearchError
    /\ searches = 1
    /\ trace = <<"filter", "intelligence">>

\* C8: for an in-domain topic the search is called once per execution of
\* the intelligence stage and never more than once; an execution that ends
\* has made exactly one search call and at least one composer call.
C8_OneSearch ==
    classified = "in" =>
        /\ searches <= 1
        /\ searches = Runs("intelligence")
        /\ Ended => /\ searches = 1
                    /\ Runs("compose") >= 1

\* C8 witness: an in-domain execution ended after a revision, one search
C8_Witness ==
    /\ Ended
    /\ classified = "in"
    /\ searches = 1
    /\ Runs("compose") = 2

\* the pairs of stages that may run one right after the other
StageOrder ==
    {<<"filter", "intelligence">>, <<"intelligence", "strategy">>,
     <<"strategy", "compose">>, <<"compose", "review">>,
     <<"review", "compose">>, <<"review", "followup">>}

\* C9: each step executes at most one stage; the first is filter, each next
\* one follows the last in the order filter, intelligence, strategy,
\* compose, review; after review comes followup if review_status is
\* APPROVED and compose otherwise; nothing is executed after followup.
C9_StageOrdering ==
    [][trace' # trace =>
        /\ Len(trace') = Len(trace) + 1
        /\ SubSeq(trace', 1, Len(trace)) = trace
        /\ trace = <<>> => Last(trace') = "filter"
        /\ trace # <<>> =>
            /\ <<Last(trace), Last(trace')>> \in StageOrder
            /\ Last(trace) = "review" =>
                 (Last(trace') = "followup" <=> state["review_status"] = "APPROVED")
      ]_vars

\* C9 witness: the whole order was run through, the revision edge included
C9_Witness ==
    /\ status = "returned"
    /\ trace = TwoComposeTrace

\* a list of follow-ups as promised: at most 3, none empty or blank
WellFormed(questions) ==
    /\ Len(questions) <= 3
    /\ \A i \in 1..Len(questions) :
         \E j \in 1..Len(questions[i]) : questions[i][j] \notin Whitespace

\* C10: followups in the state and suggestions in the result always have at
\* most 3 elements, none of them empty or made of whitespace only.
C10_Followups ==
    /\ "followups" \in DOMAIN state => WellFormed(state["followups"])
    /\ \A i \in 1..Len(result) : WellFormed(result[i].suggestions)

\* C10 witness: the model returned more than 3 non-blank lines, one of them
\* with blanks around its text, to followup_node
C10_Witness ==
    /\ Ended
    /\ Last(trace) = "followup"
    /\ Len(StrippedNonEmpty(split(llm_out))) > 3
    /\ Head(llm_out) = " "
    /\ Len(state["followups"]) = 3

\* C11 (as claimed): a call that returns has returned exactly one result;
\* if the filter stopped, it is the rejection message with no suggestions;
\* otherwise it is the last composed document with the followup stage's
\* output.
C11_Result ==
    status = "returned" =>
        /\ Len(result) = 1
        /\ classified = "out" =>
             result[1] = [report |-> RejectionMessage, suggestions |-> <<>>]
        /\ classified = "in" =>
             /\ Last(trace) = "followup"
             /\ result[1] = [report |-> state["final_document"],
                             suggestions |-> state["followups"]]

\* the stage that has just run to its end in this step
Completed(node) ==
    /\ status' = "running"
    /\ Len(trace') = Len(trace) + 1
    /\ Last(trace') = node

\* C15: iteration is absent until the intelligence stage sets it to 0; each
\* composer execution adds exactly 1; no other step changes it; so it never
\* decreases and, once set, equals the number of composer executions.
C15_Iteration ==
    [][/\ Completed("intelligence") =>
            /\ "iteration" \notin DOMAIN state
            /\ state'["iteration"] = 0
       /\ Completed("compose") =>
            /\ "iteration" \in DOMAIN state
            /\ state'["iteration"] = state["iteration"] + 1
       /\ ~Completed("intelligence") /\ ~Completed("compose") =>
            /\ ("iteration" \in DOMAIN state') = ("iteration" \in DOMAIN state)
            /\ "iteration" \in DOMAIN state => state'["iteration"] = state["iteration"]
       /\ ("iteration" \in DOMAIN state' /\ status' # "raised") =>
            state'["iteration"] =
                Cardinality({i \in 1..Len(trace') : trace'[i] = "compose"})
      ]_vars

\* C15 witness: the counter stands at 2 after two composer executions
C15_Witness ==
    /\ pc = "review"
    /\ status = "running"
    /\ state["iteration"] = 2
    /\ Runs("compose") = 2

\* the text holds PASS, in upper or lower case letters
HoldsPass(text) ==
    \E i \in 1..(Len(text) - 3) :
        /\ text[i] \in {"P", "p"}
        /\ text[i + 1] \in {"A", "a"}
        /\ text[i + 2] \in {"S", "s"}
        /\ text[i + 3] \in {"S", "s"}

\* C16: a review sets review_status to APPROVED if the verdict holds PASS
\* (in any case) or iteration >= 2, to REVISE otherwise, and leaves every
\* other key of the state as it was.
C16_QualityCheck ==
    [][Completed("review") =>
        /\ state'["review_status"] =
             IF HoldsPass(llm_out') \/ state["iteration"] >= 2
             THEN "APPROVED" ELSE "REVISE"
        /\ DOMAIN state' = DOMAIN state \cup {"review_status"}
        /\ \A k \in DOMAIN state \ {"review_status"} : state'[k] = state[k]
      ]_vars

\* C16 witness: a verdict without PASS was approved because of the cap,
\* after one without PASS at iteration 1 was not
C16_Witness ==
    /\ status = "running"
    /\ passLog = <<FALSE, FALSE>>
    /\ Last(trace) = "review"
    /\ ~HoldsPass(llm_out)
    /\ state["review_status"] = "APPROVED"

\* C17: a stage about to run finds its input in the state, written by an
\* earlier stage of this execution: strategy the notes, compose the
\* insights, review and followup the document.
C17_DataDependencies ==
    status = "running" =>
        /\ pc = "strategy" =>
             "summary_notes" \in DOMAIN state /\ Runs("intelligence") >= 1
        /\ pc = "compose" =>
             "strategic_insights" \in DOMAIN state /\ Runs("strategy") >= 1
        /\ pc \in {"review", "followup"} =>
             /\ "final_document" \in DOMAIN state
             /\ Runs("compose") >= 1
             /\ state["final_document"] \in Documents

\* C17 witness: followup is about to run on a revised document
C17_Witness ==
    /\ status = "running"
    /\ pc = "followup"
    /\ Runs("compose") = 2
    /\ state["final_document"] \in Documents

\* the text holds YES, in upper or lower case letters
HoldsYes(text) ==
    \E i \in 1..(Len(text) - 2) :
        /\ text[i] \in {"Y", "y"}
        /\ text[i + 1] \in {"E", "e"}
        /\ text[i + 2] \in {"S", "s"}

\* C18: when the answer to the relevance prompt holds YES, the filter stage
\* leaves the state as it was and the intelligence stage is next.
C18_FilterPasses ==
    [][(Completed("filter") /\ HoldsYes(llm_out')) =>
        /\ state' = state
        /\ pc' = "intelligence"
      ]_vars

\* C18 witness: the filter has passed a topic on an answer of " Yes\n"
C18_Witness ==
    /\ trace = <<"filter">>
    /\ status = "running"
    /\ llm_out = <<" ", "Y", "e", "s", "\n">>
    /\ pc = "intelligence"
    /\ DOMAIN state = {"topic"}

\* a call run alone: the stages it goes through, from a state holding only
\* the topic, when its external calls give the answers listed
RECURSIVE Replay(_, _, _, _)
Replay(node, s, answers, done) ==
    IF answers = <<>> \/ node = "END"
    THEN [pc |-> node, state |-> s, trace |-> done]
    ELSE LET merged == ApplyPatch(s, NodePatch(node, s, Head(answers)))
         IN  Replay(NextNode(node, merged), merged, Tail(answers), Append(done, node))

Alone(call) ==
    Replay("filter", [topic |-> runs[call].topic], runs[call].answers, <<>>)

\* C13: under every interleaving, a call's stages, its state and its result
\* are those of the same call run alone on the same answers.
C13_NoInterference ==
    \A call \in Calls :
        runs[call].pc # "idle" =>
            /\ runs[call].trace = Alone(call).trace
            /\ runs[call].pc = Alone(call).pc
            /\ checkpoints[ThreadKey(call, runs[call].thread)] = Alone(call).state
            /\ runs[call].status = "returned" =>
                 runs[call].result = <<ResultOf(Alone(call).state)>>

\* C13 witness: two calls on the same topic and the default thread, both in
\* the middle of their revision loops, hold different documents
C13_Witness ==
    /\ runs[1].pc = "review" /\ runs[2].pc = "review"
    /\ runs[1].topic = runs[2].topic
    /\ runs[1].thread = "energy_session" /\ runs[2].thread = "energy_session"
    /\ Len(runs[1].trace) = 6 /\ Len(runs[2].trace) = 4
    /\ checkpoints[ThreadKey(1, "energy_session")]["final_document"]
         # checkpoints[ThreadKey(2, "energy_session")]["final_document"]

\* C14: a call starts from a state that holds the topic and nothing else,
\* whatever calls went before; and two calls on the same topic that get the
\* same answers return the same result.
C14_Determinism ==
    /\ \A call \in Calls :
         runs[call].pc # "idle" => runs[call].first = [topic |-> runs[call].topic]
    /\ \A a, b \in Calls :
         (/\ runs[a].status = "returned" /\ runs[b].status = "returned"
          /\ runs[a].topic = runs[b].topic
          /\ runs[a].answers = runs[b].answers)
         => runs[a].result = runs[b].result

\* C14 witness: two calls without session key, on the same topic and the
\* same answers, went through a revision and returned the same result
C14_Witness ==
    /\ runs[1].status = "returned" /\ runs[2].status = "returned"
    /\ runs[1].thread = "energy_session" /\ runs[2].thread = "energy_session"
    /\ runs[1].topic = runs[2].topic
    /\ runs[1].answers = runs[2].answers
    /\ Len(runs[1].trace) = 8
    /\ runs[2].result = runs[1].result

\* the slug of request r's topic
SlugOf(r) == normalize_topic(requests[r].query)

\* request q was answered with success before request r arrived
DoneBefore(q, r) ==
    /\ q \in requests[r].after
    /\ requests[q].response.status = 200

\* C12: a request that arrives after one of the same slug was answered with
\* success never calls run_full_research, and is answered with the report
\* the cache holds for the slug.
C12_CachedTopic ==
    \A r, q \in Requests :
        (DoneBefore(q, r) /\ SlugOf(q) = SlugOf(r)) =>
            /\ ~requests[r].ran
            /\ requests[r].pc \in {"fetch", "done"}
            /\ requests[r].pc = "done" =>
                 /\ FirstBySlug(cache, SlugOf(r)) # <<>>
                 /\ requests[r].response =
                      ResearchResponse(FirstBySlug(cache, SlugOf(r))[1].content,
                                       <<"database-cache">>, <<>>)

\* C12 witness: request 1 ran the pipeline for "Sun" and was answered; then
\* request 2 asked for " sun!" and was answered from the cache
C12_Witness ==
    /\ DoneBefore(1, 2)
    /\ requests[1].ran
    /\ requests[1].query = <<"S", "u", "n">>
    /\ requests[2].query = <<" ", "s", "u", "n", "!">>
    /\ requests[2].pc = "done"
    /\ requests[2].response.file_path = <<"database-cache">>
    /\ requests[2].response.result = requests[1].response.result

\* C19: no step removes or changes a row of the cache, and after every step
\* the cache holds at most one row per slug.
C19_CacheEntries ==
    [][/\ Len(cache') >= Len(cache)
       /\ \A i \in 1..Len(cache) : cache'[i] = cache[i]
       /\ \A i, j \in 1..Len(cache') : cache'[i].slug = cache'[j].slug => i = j
      ]_vars

\* C19 witness: two requests of the same slug both found the cache empty
\* and ran the pipeline; one stored its report, the other's commit failed
C19_Witness ==
    /\ SlugOf(1) = SlugOf(2)
    /\ requests[1].ran /\ requests[2].ran
    /\ requests[1].response.status = 200
    /\ requests[2].failed = "commit"
    /\ Len(cache) = 1
    /\ cache[1].content = requests[1].report

\* C20: the step in which run_full_research fails ends the request with a
\* 500 and leaves the cache and the report files as they were; and a request
\* that then finds no entry for the topic's slug goes on to run the pipeline.
C20_FailedResearch ==
    [][\A r \in Requests :
        /\ (requests[r].pc = "run" /\ requests'[r].failed = "pipeline") =>
              /\ requests'[r].pc = "done"
              /\ requests'[r].response = ServerError
              /\ cache' = cache
              /\ files' = files
        /\ (/\ requests[r].pc = "fetch"
            /\ requests'[r].pc # "fetch"
            /\ \E q \in requests[r].after :
                 requests[q].failed = "pipeline" /\ SlugOf(q) = SlugOf(r)
            /\ FirstBySlug(cache, SlugOf(r)) = <<>>) =>
              requests'[r].pc = "run"
      ]_vars

\* C20 witness: request 1 failed in the pipeline; request 2, arrived later
\* for the same topic, ran the pipeline and stored the first entry
C20_Witness ==
    /\ requests[1].failed = "pipeline"
    /\ requests[1].response = ServerError
    /\ 1 \in requests[2].after
    /\ requests[2].query = requests[1].query
    /\ requests[2].ran
    /\ requests[2].response.status = 200
    /\ Len(cache) = 1
    /\ cache[1].content = requests[2].report

====
